---- MODULE Spec2Model ----
\* Model of src/1_setup/setup_catalogs.py: a Databricks notebook of three SQL
\* cells (five statements) that provisions catalog fmcg and the schemas gold,
\* silver and bronze, run against a platform that keeps the namespace listing.
EXTENDS Integers, Sequences, FiniteSets, TLC

VARIABLES
    listing,        \* platform metadata: namespace name -> sequence of objects (their owners)
    conflict,       \* names held by an object of an incompatible type
    reachable,      \* whether the platform answers
    privCheckFirst, \* platform trait: privilege is checked before the existence test
    privs,          \* per connection: the creation privileges it holds
    status,         \* per connection: "idle", "running", "done", "failed"
    pc,             \* per connection: number of statements of the run completed
    err,            \* per connection: the platform error that ended the run, or "none"
    active,         \* per connection: the session's current catalog
    executed,       \* per connection: the statements completed in the current run
    before,         \* per connection: the listing when the current run started
    outcomes        \* per connection: results of its finished runs, oldest first

vars == <<listing, conflict, reachable, privCheckFirst, privs, status, pc, err,
          active, executed, before, outcomes>>

\* Number of runs one connection may start.
MaxRuns == 2

Sessions == {"A", "B"}
Owners == {"pre"} \cup Sessions
Privileges == {"CREATE_CATALOG", "CREATE_SCHEMA"}

Fmcg == "fmcg"
\* The catalog a fresh session is in before any USE CATALOG; built into the
\* platform, so it always exists and is not part of the listing.
DefaultCatalog == "hive_metastore"
CatalogNames == {Fmcg, DefaultCatalog}
SchemaNames == {"gold", "silver", "bronze"}

CatalogName(c) == <<c>>
SchemaName(c, x) == <<c, x>>
Names == {CatalogName(c) : c \in CatalogNames}
            \cup {SchemaName(c, x) : c \in CatalogNames, x \in SchemaNames}
\* The four namespaces the notebook provisions.
Provisioned == {CatalogName(Fmcg)} \cup {SchemaName(Fmcg, x) : x \in SchemaNames}

\* The notebook without IF NOT EXISTS on its CREATE statements.
ProgramStrict ==
    << [op |-> "CREATE_CATALOG", name |-> <<"fmcg">>, ifNotExists |-> FALSE],
       [op |-> "USE_CATALOG", name |-> <<"fmcg">>, ifNotExists |-> FALSE],
       [op |-> "CREATE_SCHEMA", name |-> <<"fmcg", "gold">>, ifNotExists |-> FALSE],
       [op |-> "CREATE_SCHEMA", name |-> <<"fmcg", "silver">>, ifNotExists |-> FALSE],
       [op |-> "CREATE_SCHEMA", name |-> <<"fmcg", "bronze">>, ifNotExists |-> FALSE] >>

\* The notebook with the last statement creating silver again instead of bronze.
ProgramNoBronze ==
    << [op |-> "CREATE_CATALOG", name |-> <<"fmcg">>, ifNotExists |-> TRUE],
       [op |-> "USE_CATALOG", name |-> <<"fmcg">>, ifNotExists |-> FALSE],
       [op |-> "CREATE_SCHEMA", name |-> <<"fmcg", "gold">>, ifNotExists |-> TRUE],
       [op |-> "CREATE_SCHEMA", name |-> <<"fmcg", "silver">>, ifNotExists |-> TRUE],
       [op |-> "CREATE_SCHEMA", name |-> <<"fmcg", "silver">>, ifNotExists |-> TRUE] >>

\* The five SQL statements of the notebook, in cell order.
Program ==
    << [op |-> "CREATE_CATALOG", name |-> <<"fmcg">>, ifNotExists |-> TRUE],
       [op |-> "USE_CATALOG", name |-> <<"fmcg">>, ifNotExists |-> FALSE],
       [op |-> "CREATE_SCHEMA", name |-> <<"fmcg", "gold">>, ifNotExists |-> TRUE],
       [op |-> "CREATE_SCHEMA", name |-> <<"fmcg", "silver">>, ifNotExists |-> TRUE],
       [op |-> "CREATE_SCHEMA", name |-> <<"fmcg", "bronze">>, ifNotExists |-> TRUE] >>

Exists(n) == listing[n] # <<>>
CatalogExists(c) == c = DefaultCatalog \/ Exists(CatalogName(c))
NamespaceSet == {n \in Names : Exists(n)}

\* Name resolution that ignores the catalog qualifier and uses the current catalog.
ResolveAgainstActive(name, act) == SchemaName(act, name[Len(name)])

\* A schema name as the platform resolves it: a two-part name names its catalog,
\* a one-part name is looked up in the session's current catalog.
Resolve(name, act) ==
    IF Len(name) = 2 THEN SchemaName(name[1], name[2]) ELSE SchemaName(act, name[1])

\* Privilege check that lets every connection through.
HasPrivAlways(s, p) == TRUE

HasPriv(s, p) == p \in privs[s]

\* CREATE OR REPLACE semantics: an existing object is replaced by a new one.
WhenExistsReplace(l, n, o) == [l EXCEPT ![n] = <<o>>]

\* No existence test: a second object is created under the same name.
WhenExistsDuplicate(l, n, o) == [l EXCEPT ![n] = Append(@, o)]

\* IF NOT EXISTS on a name that exists: nothing changes.
WhenExists(l, n, o) == l

Ok(l, a) == [err |-> "none", listing |-> l, active |-> a]
Fail(s, e) == [err |-> e, listing |-> listing, active |-> active[s]]

\* CREATE <kind> [IF NOT EXISTS] n, by connection s, needing privilege p.
ExecCreate(s, st, n, p) ==
    IF n \in conflict THEN Fail(s, "conflict")
    ELSE IF privCheckFirst /\ ~HasPriv(s, p) THEN Fail(s, "permission_denied")
    ELSE IF Exists(n)
        THEN IF st.ifNotExists THEN Ok(WhenExists(listing, n, s), active[s])
             ELSE Fail(s, "already_exists")
    ELSE IF ~HasPriv(s, p) THEN Fail(s, "permission_denied")
    ELSE Ok([listing EXCEPT ![n] = Append(@, s)], active[s])

\* USE CATALOG that leaves the session's current catalog as it was.
SelectCatalogKeep(c, act) == act

\* USE CATALOG c: the catalog the session is in afterwards.
SelectCatalog(c, act) == c

\* What the platform does with statement st sent by connection s.
Exec(s, st) ==
    IF ~reachable THEN Fail(s, "unreachable")
    ELSE IF st.op = "CREATE_CATALOG"
        THEN ExecCreate(s, st, CatalogName(st.name[1]), "CREATE_CATALOG")
    ELSE IF st.op = "USE_CATALOG"
        THEN IF CatalogExists(st.name[1])
             THEN Ok(listing, SelectCatalog(st.name[1], active[s]))
             ELSE Fail(s, "no_such_catalog")
    ELSE LET n == Resolve(st.name, active[s]) IN
         IF CatalogExists(n[1]) THEN ExecCreate(s, st, n, "CREATE_SCHEMA")
         ELSE Fail(s, "no_such_catalog")

\* A run that goes on to the next statement whether or not this one failed.
AdvanceNoHalt(i, e) ==
    [pc |-> i, status |-> IF i = Len(Program) THEN "done" ELSE "running"]

\* A run that skips the statement after a successful one.
AdvanceSkip(i, e) ==
    IF e # "none" THEN [pc |-> i - 1, status |-> "failed"]
    ELSE IF i + 1 >= Len(Program) THEN [pc |-> Len(Program), status |-> "done"]
    ELSE [pc |-> i + 1, status |-> "running"]

\* Where the run stands after statement i ended with e: a failed statement
\* halts the run, a successful one hands over to the next, the last ends it.
Advance(i, e) ==
    IF e # "none" THEN [pc |-> i - 1, status |-> "failed"]
    ELSE IF i = Len(Program) THEN [pc |-> i, status |-> "done"]
    ELSE [pc |-> i, status |-> "running"]

Finished(st) == st \in {"done", "failed"}

\* Connection s runs statement i of the notebook.
Step(s, i) ==
    /\ status[s] = "running"
    /\ pc[s] = i - 1
    /\ LET st == Program[i]
           out == Exec(s, st)
           adv == Advance(i, out.err)
       IN /\ listing' = out.listing
          /\ active' = [active EXCEPT ![s] = out.active]
          /\ err' = [err EXCEPT ![s] = out.err]
          /\ pc' = [pc EXCEPT ![s] = adv.pc]
          /\ status' = [status EXCEPT ![s] = adv.status]
          /\ executed' = [executed EXCEPT ![s] =
                            IF out.err = "none" THEN Append(@, st) ELSE @]
          /\ outcomes' = [outcomes EXCEPT ![s] =
                            IF adv.status = "done" THEN Append(@, "ok")
                            ELSE IF adv.status = "failed" THEN Append(@, "failed")
                            ELSE @]
    /\ UNCHANGED <<conflict, reachable, privCheckFirst, privs, before>>

CreateCatalog(s) == Step(s, 1)
UseCatalog(s) == Step(s, 2)
CreateSchemaGold(s) == Step(s, 3)
CreateSchemaSilver(s) == Step(s, 4)
CreateSchemaBronze(s) == Step(s, 5)

\* The operator runs the whole notebook on connection s, in a fresh session or
\* in the session of its previous run.
StartRun(s) ==
    /\ status[s] = "idle" \/ Finished(status[s])
    /\ Len(outcomes[s]) < MaxRuns
    /\ status' = [status EXCEPT ![s] = "running"]
    /\ pc' = [pc EXCEPT ![s] = 0]
    /\ err' = [err EXCEPT ![s] = "none"]
    /\ \E a \in {DefaultCatalog, active[s]} : active' = [active EXCEPT ![s] = a]
    /\ executed' = [executed EXCEPT ![s] = <<>>]
    /\ before' = [before EXCEPT ![s] = listing]
    /\ UNCHANGED <<listing, conflict, reachable, privCheckFirst, privs, outcomes>>

\* The environment: the platform becomes unreachable or reachable again, a
\* missing privilege is granted, a conflicting object is removed.
Disconnect ==
    /\ reachable
    /\ reachable' = FALSE
    /\ UNCHANGED <<listing, conflict, privCheckFirst, privs, status, pc, err,
                   active, executed, before, outcomes>>

Reconnect ==
    /\ ~reachable
    /\ reachable' = TRUE
    /\ UNCHANGED <<listing, conflict, privCheckFirst, privs, status, pc, err,
                   active, executed, before, outcomes>>

Grant(s) ==
    /\ \E p \in Privileges \ privs[s] : privs' = [privs EXCEPT ![s] = @ \cup {p}]
    /\ UNCHANGED <<listing, conflict, reachable, privCheckFirst, status, pc, err,
                   active, executed, before, outcomes>>

ClearConflict ==
    /\ conflict # {}
    /\ conflict' = {}
    /\ UNCHANGED <<listing, reachable, privCheckFirst, privs, status, pc, err,
                   active, executed, before, outcomes>>

\* Platform states a run can start from: catalog fmcg absent (and then no
\* schema of it), or present with any of its three schemas; at most one of
\* the absent names held by an incompatible object.
InitPlatform ==
    /\ \E present \in SUBSET Provisioned :
          /\ (present # {} => CatalogName(Fmcg) \in present)
          /\ listing = [n \in Names |-> IF n \in present THEN <<"pre">> ELSE <<>>]
          /\ \E c \in SUBSET (Provisioned \ present) :
                /\ Cardinality(c) <= 1
                /\ conflict = c
    /\ reachable \in BOOLEAN
    /\ privCheckFirst \in BOOLEAN

InitSessions(S) ==
    /\ privs \in [Sessions -> SUBSET Privileges]
    /\ \A s \in Sessions \ S : privs[s] = {}
    /\ status = [s \in Sessions |-> "idle"]
    /\ pc = [s \in Sessions |-> 0]
    /\ err = [s \in Sessions |-> "none"]
    /\ active = [s \in Sessions |-> DefaultCatalog]
    /\ executed = [s \in Sessions |-> <<>>]
    /\ before = [s \in Sessions |-> listing]
    /\ outcomes = [s \in Sessions |-> <<>>]

\* One operator, one connection, runs following one another.
Init == InitPlatform /\ InitSessions({"A"})

Next ==
    \/ StartRun("A")
    \/ CreateCatalog("A")
    \/ UseCatalog("A")
    \/ CreateSchemaGold("A")
    \/ CreateSchemaSilver("A")
    \/ CreateSchemaBronze("A")
    \/ Disconnect
    \/ Reconnect
    \/ Grant("A")
    \/ ClearConflict

Spec == Init /\ [][Next]_vars

Run(s) ==
    \/ CreateCatalog(s)
    \/ UseCatalog(s)
    \/ CreateSchemaGold(s)
    \/ CreateSchemaSilver(s)
    \/ CreateSchemaBronze(s)

\* The notebook is synchronous: a run that has a statement left executes it.
FairSpec == Spec /\ WF_vars(Run("A"))

\* Two operators run the notebook on connections of their own against the
\* same reachable platform; the platform executes one statement at a time.
InitConc ==
    /\ InitPlatform
    /\ conflict = {}
    /\ reachable
    /\ InitSessions(Sessions)

NextConc ==
    \/ \E s \in Sessions : StartRun(s)
    \/ \E s \in Sessions : CreateCatalog(s)
    \/ \E s \in Sessions : UseCatalog(s)
    \/ \E s \in Sessions : CreateSchemaGold(s)
    \/ \E s \in Sessions : CreateSchemaSilver(s)
    \/ \E s \in Sessions : CreateSchemaBronze(s)

SpecConc == InitConc /\ [][NextConc]_vars

\* The last SQL cell (the three CREATE SCHEMA statements) run on its own, in a
\* session whose current catalog is whatever it was left at.
InitCell ==
    /\ InitPlatform
    /\ privs \in [Sessions -> SUBSET Privileges]
    /\ privs["B"] = {}
    /\ status = [s \in Sessions |-> IF s = "A" THEN "running" ELSE "idle"]
    /\ pc = [s \in Sessions |-> IF s = "A" THEN 2 ELSE 0]
    /\ err = [s \in Sessions |-> "none"]
    /\ \E a \in CatalogNames :
          /\ CatalogExists(a)
          /\ active = [s \in Sessions |-> IF s = "A" THEN a ELSE DefaultCatalog]
    /\ executed = [s \in Sessions |-> <<>>]
    /\ before = [s \in Sessions |-> listing]
    /\ outcomes = [s \in Sessions |-> <<>>]

NextCell ==
    \/ CreateSchemaGold("A")
    \/ CreateSchemaSilver("A")
    \/ CreateSchemaBronze("A")
    \/ Disconnect
    \/ Reconnect
    \/ Grant("A")
    \/ ClearConflict

SpecCell == InitCell /\ [][NextCell]_vars

\* ---------------------------------------------------------------- properties

Present(l) == {n \in Names : l[n] # <<>>}

\* The result of the run before the current one of connection s, "none" if
\* the current run is its first.
PrevOutcome(s) ==
    LET k == IF Finished(status[s]) THEN Len(outcomes[s]) - 1 ELSE Len(outcomes[s])
    IN IF k >= 1 THEN outcomes[s][k] ELSE "none"

\* C1: a run that follows a successful run ends with the listing the earlier
\* run left (same namespace set, same objects), never meets an
\* already-exists error, and can only be stopped by the platform being
\* unreachable.
IdempotentRerun ==
    \A s \in Sessions :
        PrevOutcome(s) = "ok" =>
            /\ err[s] \in {"none", "unreachable"}
            /\ status[s] = "done" =>
                  /\ NamespaceSet = Present(before[s])
                  /\ listing = before[s]

\* A second run has completed after a first one that created catalog fmcg.
IdempotentRerunWitness ==
    /\ PrevOutcome("A") = "ok"
    /\ status["A"] = "done"
    /\ listing[CatalogName(Fmcg)] = <<"A">>

\* C2: after a successful run the listing holds exactly catalog fmcg and the
\* schemas fmcg.gold, fmcg.silver, fmcg.bronze.
ExactlyFourAfterSuccess ==
    \A s \in Sessions : status[s] = "done" => NamespaceSet = Provisioned

\* A first run has completed on a platform that was empty when it started.
ExactlyFourWitness ==
    /\ status["A"] = "done"
    /\ Len(outcomes["A"]) = 1
    /\ Present(before["A"]) = {}
    /\ NamespaceSet = Provisioned

\* What C3 claims of a run on connection s for every starting state.
FailsAtFirstStatement(s) ==
    /\ status[s] # "done"
    /\ pc[s] = 0
    /\ executed[s] = <<>>
    /\ listing = before[s]

HaltNoRollbackRerun ==
    \A s \in Sessions :
        /\ err[s] # "none" => status[s] = "failed"
        /\ status[s] = "failed" =>
              /\ err[s] # "none"
              /\ ~ENABLED Run(s)
              /\ pc[s] = Len(executed[s])
              /\ pc[s] < Len(Program)
              /\ \A k \in 1..Len(executed[s]) :
                    executed[s][k].op # "USE_CATALOG" => Exists(executed[s][k].name)
        /\ (PrevOutcome(s) = "failed" /\ status[s] = "done")
              => NamespaceSet = Provisioned

\* A run that created gold and then failed was followed by a run that completed.
HaltNoRollbackRerunWitness ==
    /\ PrevOutcome("A") = "failed"
    /\ status["A"] = "done"
    /\ before["A"][SchemaName(Fmcg, "gold")] = <<"A">>
    /\ before["A"][SchemaName(Fmcg, "bronze")] = <<>>

\* C5: no step changes or removes a namespace that exists, the only names
\* ever added are the four provisioned ones, and a completed run that started
\* with catalog fmcg alone has added the three schemas and left the catalog
\* object as it was.
OnlyAdds ==
    /\ [][\A n \in Names :
             /\ listing[n] # <<>> => listing'[n] = listing[n]
             /\ listing'[n] # listing[n] => n \in Provisioned]_vars
    /\ [](\A s \in Sessions :
             (status[s] = "done" /\ Present(before[s]) = {CatalogName(Fmcg)}) =>
                 /\ NamespaceSet = Provisioned
                 /\ listing[CatalogName(Fmcg)] = before[s][CatalogName(Fmcg)]
                 /\ \A x \in SchemaNames : listing[SchemaName(Fmcg, x)] = <<s>>)

\* A run has completed that started with catalog fmcg and no schema.
OnlyAddsWitness ==
    /\ status["A"] = "done"
    /\ Present(before["A"]) = {CatalogName(Fmcg)}
    /\ listing[CatalogName(Fmcg)] = <<"pre">>
    /\ listing[SchemaName(Fmcg, "silver")] = <<"A">>

\* The statements in the order the notebook states them.
NotebookOrder ==
    << <<"CREATE_CATALOG", <<"fmcg">> >>,
       <<"USE_CATALOG", <<"fmcg">> >>,
       <<"CREATE_SCHEMA", <<"fmcg", "gold">> >>,
       <<"CREATE_SCHEMA", <<"fmcg", "silver">> >>,
       <<"CREATE_SCHEMA", <<"fmcg", "bronze">> >> >>

\* C6: the statements a run has executed are always the first k statements of
\* the notebook in its order, none skipped or repeated, so a schema statement
\* has executed only after CREATE CATALOG and USE CATALOG succeeded.
FixedOrder ==
    \A s \in Sessions :
        /\ Len(executed[s]) <= Len(NotebookOrder)
        /\ pc[s] = Len(executed[s])
        /\ \A k \in 1..Len(executed[s]) :
              <<executed[s][k].op, executed[s][k].name>> = NotebookOrder[k]
        /\ Len(executed[s]) >= 2 => active[s] = Fmcg

\* A run has executed all five statements.
FixedOrderWitness ==
    /\ status["A"] = "done"
    /\ Len(executed["A"]) = 5
    /\ executed["A"][5].name = <<"fmcg", "bronze">>

\* C7 as stated: the schemas are resolved against the session's current
\* catalog, so a session that is in another catalog creates none under fmcg.
SchemasFollowActiveCatalog ==
    \A s \in Sessions :
        (active[s] # Fmcg /\ executed[s] # <<>>)
            => \A x \in SchemaNames : listing[SchemaName(Fmcg, x)] # <<s>>

\* C7 amended: the schema statements name their catalog, so each one that
\* executed has its schema under fmcg whatever the session's current catalog
\* is, and no schema is ever created under another catalog.
SchemasLandUnderFmcg ==
    /\ \A s \in Sessions : \A k \in 1..Len(executed[s]) :
          executed[s][k].op = "CREATE_SCHEMA"
              => Exists(SchemaName(Fmcg, executed[s][k].name[Len(executed[s][k].name)]))
    /\ \A c \in CatalogNames \ {Fmcg} : \A x \in SchemaNames : ~Exists(SchemaName(c, x))

\* The three schemas were created under fmcg by a session that is in another catalog.
SchemasLandUnderFmcgWitness ==
    /\ status["A"] = "done"
    /\ active["A"] = DefaultCatalog
    /\ \A x \in SchemaNames : listing[SchemaName(Fmcg, x)] = <<"A">>

\* C8: a schema exists only under catalog fmcg and only while that catalog
\* exists, no schema name is in two catalogs, and no name has two objects.
Containment ==
    /\ \A c \in CatalogNames : \A x \in SchemaNames :
          Exists(SchemaName(c, x)) => (c = Fmcg /\ Exists(CatalogName(Fmcg)))
    /\ \A x \in SchemaNames :
          Cardinality({c \in CatalogNames : Exists(SchemaName(c, x))}) <= 1
    /\ \A n \in Names : Len(listing[n]) <= 1

\* A run has failed after it created schema gold.
ContainmentWitness ==
    /\ status["A"] = "failed"
    /\ pc["A"] >= 3
    /\ listing[SchemaName(Fmcg, "gold")] = <<"A">>
    /\ ~Exists(SchemaName(Fmcg, "bronze"))

\* C9: a run always reaches its end or halts with an error, and a run that
\* reached its end has executed exactly the five statements, all four
\* namespaces are present and fmcg is the current catalog.
Terminates ==
    /\ [](status["A"] = "done" =>
             /\ Len(executed["A"]) = Len(Program)
             /\ Provisioned \subseteq NamespaceSet
             /\ active["A"] = Fmcg)
    /\ (status["A"] = "running") ~> Finished(status["A"])

\* A run has ended that started with catalog fmcg and schema gold present.
TerminatesWitness ==
    /\ status["A"] = "done"
    /\ err["A"] = "none"
    /\ active["A"] = Fmcg
    /\ Present(before["A"]) = {CatalogName(Fmcg), SchemaName(Fmcg, "gold")}

\* C10: with two runs interleaved, a connection that holds both privileges
\* never fails, no run meets an already-exists error, and once both have
\* completed the listing holds exactly the four namespaces, each once.
InterleavedRunsSafe ==
    /\ \A s \in Sessions :
          /\ err[s] \in {"none", "permission_denied"}
          /\ privs[s] = Privileges => err[s] = "none"
    /\ (\A s \in Sessions : status[s] = "done") =>
          /\ NamespaceSet = Provisioned
          /\ \A n \in Provisioned : Len(listing[n]) = 1

\* Both runs completed, each having created part of the namespaces.
InterleavedRunsWitness ==
    /\ \A s \in Sessions : status[s] = "done" /\ Len(outcomes[s]) = 1
    /\ listing[CatalogName(Fmcg)] = <<"A">>
    /\ listing[SchemaName(Fmcg, "gold")] = <<"B">>
    /\ listing[SchemaName(Fmcg, "silver")] = <<"A">>

====
